---------------------------- MODULE Spec2Model ----------------------------
(***************************************************************************)
(* A model of format_bib.py: the BibTeX reformatter that derives a new    *)
(* key surname+year(+title abbreviation) for every entry, drops entries    *)
(* whose title was already seen, and rewrites the file in two passes.      *)
(*                                                                         *)
(* Python str values are TLC strings; a character is a string of length 1. *)
(* The alphabet is ASCII.                                                  *)
(***************************************************************************)
EXTENDS Integers, Sequences, FiniteSets, TLC

VARIABLES
    blocks,              \* lib.blocks, the parsed block sequence
    tagger,              \* the spaCy collaborator of this run
    pc,                  \* position of the script
    i,                   \* index of the block the running pass is at
    seen_titles,         \* seen_titles
    key_usage,           \* key_usage: key -> list of info
    entry_replacements,  \* entry_replacements: start_line -> formatted entry
    title,               \* title of the entry under derivation
    key,                 \* key, the candidate of the entry under derivation
    n,                   \* n of the escalation loop
    committed,           \* start_line -> the key the entry was formatted with
    out,                 \* the output file: NotOpened or the list of writes
    stderr,              \* lines printed to sys.stderr
    stdout,              \* lines printed to sys.stdout
    exit_code,           \* process exit status, NoExit while running
    arg,                 \* input of the function applied on its own
    ret                  \* the values it returned, call after call

vars == <<blocks, tagger, pc, i, seen_titles, key_usage, entry_replacements,
          title, key, n, committed, out, stderr, stdout, exit_code,
          arg, ret>>

mainVars == <<blocks, tagger, pc, i, seen_titles, key_usage,
              entry_replacements, title, key, n, committed, out, stderr,
              stdout, exit_code>>

unitVars == <<arg, ret>>

---------------------------------------------------------------------------
(* Strings *)

Ch(s, k) == SubSeq(s, k, k)

UPPER == "ABCDEFGHIJKLMNOPQRSTUVWXYZ"
LOWER == "abcdefghijklmnopqrstuvwxyz"
DIGITS == "0123456789"

CharsOf(s) == {Ch(s, k) : k \in 1..Len(s)}

UpperLetters == CharsOf(UPPER)
LowerLetters == CharsOf(LOWER)
Letters == UpperLetters \cup LowerLetters
Digits == CharsOf(DIGITS)

\* re's \s and str.split()/str.strip() on ASCII text
Whitespace == {" ", "\t", "\n", "\r", "\f"}

\* string.punctuation (without the grave accent, which no input here contains)
Punctuation ==
    {"!", "\"", "#", "$", "%", "&", "'", "(", ")", "*", "+", ",", "-", ".",
     "/", ":", ";", "<", "=", ">", "?", "@", "[", "\\", "]", "^", "_",
     "{", "|", "}", "~"}

LowerMap ==
    [c \in UpperLetters |-> Ch(LOWER, CHOOSE k \in 1..26 : Ch(UPPER, k) = c)]

UpperMap ==
    [c \in LowerLetters |-> Ch(UPPER, CHOOSE k \in 1..26 : Ch(LOWER, k) = c)]

LowerChar(c) == IF c \in UpperLetters THEN LowerMap[c] ELSE c

UpperChar(c) == IF c \in LowerLetters THEN UpperMap[c] ELSE c

RECURSIVE Concat(_)
\* "".join(seq)
Concat(seq) == IF seq = <<>> THEN "" ELSE Head(seq) \o Concat(Tail(seq))

\* str.lower()
Lower(s) == Concat([k \in 1..Len(s) |-> LowerChar(Ch(s, k))])

\* str.upper()
Upper(s) == Concat([k \in 1..Len(s) |-> UpperChar(Ch(s, k))])

\* s without its characters that are in the set drop
Without(s, drop) ==
    Concat([k \in 1..Len(s) |-> IF Ch(s, k) \in drop THEN "" ELSE Ch(s, k)])

RECURSIVE LStrip(_)
LStrip(s) == IF s # "" /\ Ch(s, 1) \in Whitespace THEN LStrip(Tail(s)) ELSE s

RECURSIVE RStrip(_)
RStrip(s) ==
    IF s # "" /\ Ch(s, Len(s)) \in Whitespace
    THEN RStrip(SubSeq(s, 1, Len(s) - 1))
    ELSE s

\* str.strip()
Strip(s) == RStrip(LStrip(s))

RECURSIVE SplitFrom(_, _, _)
SplitFrom(s, cur, acc) ==
    IF s = "" THEN (IF cur = "" THEN acc ELSE Append(acc, cur))
    ELSE IF Ch(s, 1) \in Whitespace
         THEN SplitFrom(Tail(s), "", IF cur = "" THEN acc ELSE Append(acc, cur))
         ELSE SplitFrom(Tail(s), cur \o Ch(s, 1), acc)

\* str.split(): the maximal runs of non-whitespace characters
Split(s) == SplitFrom(s, "", <<>>)

RECURSIVE CollapseFrom(_, _)
CollapseFrom(s, inRun) ==
    IF s = "" THEN ""
    ELSE IF Ch(s, 1) \in Whitespace
         THEN (IF inRun THEN "" ELSE " ") \o CollapseFrom(Tail(s), TRUE)
         ELSE Ch(s, 1) \o CollapseFrom(Tail(s), FALSE)

\* re.sub of every whitespace run by one space
CollapseWhitespace(s) == CollapseFrom(s, FALSE)

RECURSIVE StringsOver(_, _)
\* every concatenation of at most k pieces
StringsOver(pieces, k) ==
    IF k = 0 THEN {""}
    ELSE LET shorter == StringsOver(pieces, k - 1)
         IN  shorter \cup {s \o p : s \in shorter, p \in pieces}

---------------------------------------------------------------------------
(* clean_title_for_key *)

\* variant: only the opening brace is removed
RemoveBraces_OpenOnly(s) == Without(s, {"{"})

\* title.replace('{', '').replace('}', '')
RemoveBraces(s) == Without(s, {"{", "}"})

clean_title_for_key(t) ==
    IF t = "" THEN ""
    ELSE Strip(CollapseWhitespace(RemoveBraces(t)))

---------------------------------------------------------------------------
(* extract_lastname *)

\* the index just after the whitespace run that starts at p
RECURSIVE RunEnd(_, _)
RunEnd(s, p) ==
    IF p <= Len(s) /\ Ch(s, p) \in Whitespace THEN RunEnd(s, p + 1) ELSE p

\* a match of \s+and\s+ (re.IGNORECASE) starts at p
SeparatorAt(s, p) ==
    /\ Ch(s, p) \in Whitespace
    /\ LET q == RunEnd(s, p)
       IN  /\ q + 3 <= Len(s)
           /\ Lower(SubSeq(s, q, q + 2)) = "and"
           /\ Ch(s, q + 3) \in Whitespace

\* re.split(r'\s+and\s+', s, flags=re.IGNORECASE)[0]
FirstPiece(s) ==
    LET starts == {p \in 1..Len(s) : SeparatorAt(s, p)}
    IN  IF starts = {} THEN s
        ELSE SubSeq(s, 1, (CHOOSE p \in starts : \A r \in starts : p <= r) - 1)

\* s.split(',')[0]
BeforeComma(s) ==
    LET commas == {p \in 1..Len(s) : Ch(s, p) = ","}
    IN  IF commas = {} THEN s
        ELSE SubSeq(s, 1, (CHOOSE p \in commas : \A r \in commas : p <= r) - 1)

\* re.sub(r'[^a-zA-Z]', '', s)
OnlyLetters(s) ==
    Concat([k \in 1..Len(s) |-> IF Ch(s, k) \in Letters THEN Ch(s, k) ELSE ""])

\* variant: the first word instead of the last
LastWord_First(first) ==
    IF Split(first) # <<>> THEN Split(first)[1] ELSE "unknown"

\* first.split()[-1] if first.split() else "unknown"
LastWord(first) ==
    IF Split(first) # <<>> THEN Split(first)[Len(Split(first))] ELSE "unknown"

extract_lastname(author) ==
    IF author = "" THEN "unknown"
    ELSE LET first == Strip(FirstPiece(author))
             last  == IF \E p \in 1..Len(first) : Ch(first, p) = ","
                      THEN BeforeComma(first)
                      ELSE LastWord(first)
             token == Lower(OnlyLetters(last))
         IN  IF token = "" THEN "unknown" ELSE token

---------------------------------------------------------------------------
(* Entries and their fields *)

Field(k, v) == [key |-> k, value |-> v]

\* Entry.fields_dict: field key -> field, the last field of a key winning
fields_dict(fields) ==
    [k \in {fields[x].key : x \in 1..Len(fields)} |->
        fields[CHOOSE x \in 1..Len(fields) :
                  /\ fields[x].key = k
                  /\ \A y \in 1..Len(fields) : fields[y].key = k => y <= x]]

get_field(entry, k, default) ==
    IF k \in DOMAIN fields_dict(entry.fields)
    THEN fields_dict(entry.fields)[k].value
    ELSE default

\* re.fullmatch(r'\d{4}', s)
FourDigits(s) == Len(s) = 4 /\ \A k \in 1..4 : Ch(s, k) \in Digits

\* the year lookup of the first pass
YearField(entry) ==
    IF "year" \in DOMAIN fields_dict(entry.fields)
    THEN Strip(get_field(entry, "year", ""))
    ELSE IF "YEAR" \in DOMAIN fields_dict(entry.fields)
         THEN Strip(get_field(entry, "YEAR", ""))
         ELSE "0000"

\* year = year if re.fullmatch(r'\d{4}', year) else "0000"
YearToken(entry) ==
    IF FourDigits(YearField(entry)) THEN YearField(entry) ELSE "0000"

\* the author lookup of the first pass
AuthorField(entry) ==
    IF "author" \in DOMAIN fields_dict(entry.fields)
    THEN get_field(entry, "author", "")
    ELSE IF "AUTHOR" \in DOMAIN fields_dict(entry.fields)
         THEN get_field(entry, "AUTHOR", "")
         ELSE "unknown"

\* title = clean_title_for_key(get_field(block, 'title', "").strip())
TitleOf(entry) == clean_title_for_key(Strip(get_field(entry, "title", "")))

---------------------------------------------------------------------------
(* extract_title_abbreviation *)

STOP_WORDS ==
    {"a", "an", "the", "and", "or", "but", "in", "on", "at", "to", "for",
     "of", "with", "by", "is", "are", "was", "were"}

\* re.sub of every punctuation character by a space
PunctuationToSpace(s) ==
    Concat([k \in 1..Len(s) |->
               IF Ch(s, k) \in Punctuation THEN " " ELSE Ch(s, k)])

\* [w for w in words if w not in STOP_WORDS and len(w) > 1]
ContentWords(t) ==
    SelectSeq(Split(PunctuationToSpace(Lower(t))),
              LAMBDA w : w \notin STOP_WORDS /\ Len(w) > 1)

\* The tagger of a run either fails to load (the exception is swallowed) or
\* tags words; `important` are the words it tags NOUN, ADJ or PROPN.
Refined(words, tg) ==
    IF ~tg.available THEN words
    ELSE LET important == SelectSeq(words, LAMBDA w : w \in tg.important)
         IN  IF important # <<>> THEN important ELSE words

\* content_words[n-2:n], for n >= 2
Window(words, m) ==
    SubSeq(words, m - 1, IF m <= Len(words) THEN m ELSE Len(words))

\* variant: the first letter is put in upper case
Rendered_FirstUpper(word) ==
    IF Len(word) <= 3 \/ Upper(word) = word
    THEN Upper(word)
    ELSE Upper(Ch(word, 1))

\* one selected word rendered
Rendered(word) ==
    IF Len(word) <= 3 \/ Upper(word) = word
    THEN Upper(word)
    ELSE Lower(Ch(word, 1))

\* s[:3]
AtMost3(s) == SubSeq(s, 1, IF Len(s) < 3 THEN Len(s) ELSE 3)

\* selected = content_words[n-2:n]; nothing is selected when the function
\* returns before
Selected(t, tg, m) ==
    IF t = "" \/ ContentWords(t) = <<>> THEN <<>>
    ELSE Window(Refined(ContentWords(t), tg), m)

extract_title_abbreviation(t, tg, m) ==
    IF t = "" THEN ""
    ELSE IF ContentWords(t) = <<>> THEN ""
    ELSE LET selected == Window(Refined(ContentWords(t), tg), m)
         IN  AtMost3(Concat([k \in 1..Len(selected) |-> Rendered(selected[k])]))

---------------------------------------------------------------------------
(* The script: key_usage is a dict in insertion order *)

NotOpened == "not opened"
NoExit == -1

HasKey(usage, k) == \E x \in 1..Len(usage) : usage[x].key = k

\* key_usage.setdefault(key, []).append(info)
SetDefaultAppend(usage, k, info) ==
    IF HasKey(usage, k)
    THEN [x \in 1..Len(usage) |->
             IF usage[x].key = k
             THEN [usage[x] EXCEPT !.items = Append(@, info)]
             ELSE usage[x]]
    ELSE Append(usage, [key |-> k, items |-> <<info>>])

\* variant: the candidate is compared with the key recorded last only
KeyCollides_LastOnly(k, usage) ==
    usage # <<>> /\ usage[Len(usage)].key = k

\* variant: the candidate is never looked up
KeyCollides_Never(k, usage) == FALSE

\* while key in key_usage
KeyCollides(k, usage) == HasKey(usage, k)

\* variant: no title counts as seen
TitleSeen_Never(t, seen) == FALSE

\* variant: the title is looked up as written
TitleSeen_CaseSensitive(t, seen) == t \in seen

\* title.lower() in seen_titles
TitleSeen(t, seen) == Lower(t) \in seen

\* variant: the title is added as written
SeenAdd_AsWritten(seen, t) == seen \cup {t}

\* seen_titles.add(title.lower())
SeenAdd(seen, t) == seen \cup {Lower(t)}

\* variant: the abbreviation is put in front
Candidate_Prepend(k, abbr) == abbr \o k

\* key = key + extract_title_abbreviation(title, use_nlp=True, n=n)
Candidate(k, abbr) == k \o abbr

\* n = 2*n.  Python integers are unbounded; once the window [n-2:n] starts
\* beyond the words of the title every later window is empty as well, so from
\* there on n is kept: the loop repeats the same iteration.
Doubled(m, t) ==
    IF m - 2 >= Len(ContentWords(t)) THEN m ELSE 2 * m

\* variant: the year is put first
BaseKey_YearFirst(lastname, year) == year \o lastname

\* key = extract_lastname(author) + year
BaseKey(lastname, year) == lastname \o year

IsEntry(b) == b.kind = "Entry"
IsDuplicateKey(b) == b.kind = "DuplicateBlockKey"

\* lines[-1].rstrip(',')
RStripComma(line) ==
    LET keep == {k \in 0..Len(line) : \A x \in (k + 1)..Len(line) : Ch(line, x) = ","}
    IN  SubSeq(line, 1, CHOOSE k \in keep : \A r \in keep : k <= r)

RECURSIVE JoinLines(_)
\* "\n".join(lines)
JoinLines(lines) ==
    IF Len(lines) = 0 THEN ""
    ELSE IF Len(lines) = 1 THEN lines[1]
    ELSE lines[1] \o "\n" \o JoinLines(Tail(lines))

\* the formatted entry of the first pass
FormatEntry(entry, k, t) ==
    LET other == SelectSeq(entry.fields, LAMBDA f : f.key # "title")
        first == "@" \o entry.entry_type \o "{" \o k \o ", title = {" \o t \o "},"
        rest  == [x \in 1..Len(other) |->
                     "  " \o other[x].key \o " = {" \o other[x].value \o "},"]
        lines == <<first>> \o rest
        cut   == IF Len(lines) > 1
                 THEN [lines EXCEPT ![Len(lines)] = RStripComma(@)]
                 ELSE lines
    IN  JoinLines(Append(cut, "}"))

\* variant: the zero-based line is reported
ReportedLine_ZeroBased(dup) == dup.start_line

\* dup.start_line + 1
ReportedLine(dup) == dup.start_line + 1

\* variant: a line break is always added
OtherText_AlwaysBreak(b) == b.raw \o "\n"

\* what the second pass writes for a block that is no Entry
OtherText(b) ==
    IF "raw" \notin DOMAIN b THEN "% [block preserved]\n"
    ELSE IF b.raw # "" /\ Ch(b.raw, Len(b.raw)) = "\n"
         THEN b.raw
         ELSE b.raw \o "\n"

---------------------------------------------------------------------------
(* Inputs: what bibtexparser.parse_file can hand to the script *)

MaxBlocks == 3

EntryBlock(type, k, fields) ==
    [kind |-> "Entry", entry_type |-> type, key |-> k, fields |-> fields]

OtherBlock(raw) == [kind |-> "Other", raw |-> raw]

DuplicateBlock(k, raw) == [kind |-> "DuplicateBlockKey", key |-> k, raw |-> raw]

EntryTemplates ==
    { EntryBlock("article", "a1",
          <<Field("title", "Deep Nets"), Field("author", "Smith, J."),
            Field("year", "2020")>>),
      EntryBlock("inproceedings", "a2",
          <<Field("author", "Smith, A. and Lee, B."),
            Field("title", "{Deep}  NETS"), Field("year", "2020")>>),
      EntryBlock("article", "a3",
          <<Field("title", "Deep Nodes"), Field("author", "Ann Smith"),
            Field("year", " 2020 ")>>),
      EntryBlock("article", "a4",
          <<Field("title", "The Of And"), Field("author", "Smith, B."),
            Field("year", "2020")>>),
      EntryBlock("book", "a5",
          <<Field("title", "Deep Nets: Big Data"), Field("AUTHOR", "smith"),
            Field("YEAR", "2020")>>),
      EntryBlock("misc", "a6", <<Field("title", "{GAN} for X")>>),
      EntryBlock("article", "a7",
          <<Field("Title", "Other Work"), Field("Author", "Lee, C."),
            Field("Year", "1999")>>) }

OtherTemplates ==
    { OtherBlock("% a comment\n"), OtherBlock("@string{jan = {January}}") }

DuplicateTemplates == { DuplicateBlock("a1", "@article{a1, title = {Again}}") }

Templates == EntryTemplates \cup OtherTemplates \cup DuplicateTemplates

\* Block.start_line of the k-th block: zero-based and increasing
StartLine(k) == 4 * (k - 1)

Parsed(choice) ==
    [k \in 1..Len(choice) |->
        [x \in DOMAIN choice[k] \cup {"start_line"} |->
            IF x = "start_line" THEN StartLine(k) ELSE choice[k][x]]]

BlockSequences ==
    {Parsed(c) : c \in UNION {[1..len -> Templates] : len \in 1..MaxBlocks}}

Taggers ==
    { [available |-> FALSE, important |-> {}],
      [available |-> TRUE, important |-> {"nets", "nodes", "data", "gan"}] }

UnitIdle == arg = "" /\ ret = <<>>

Init ==
    /\ blocks \in BlockSequences
    /\ tagger \in Taggers
    /\ pc = "start"
    /\ i = 1
    /\ seen_titles = {}
    /\ key_usage = <<>>
    /\ entry_replacements = <<>>
    /\ title = ""
    /\ key = ""
    /\ n = 2
    /\ committed = <<>>
    /\ out = NotOpened
    /\ stderr = <<>>
    /\ stdout = <<>>
    /\ exit_code = NoExit
    /\ UnitIdle

---------------------------------------------------------------------------
(* The script, step by step *)

DuplicateBlocks(bs) == SelectSeq(bs, IsDuplicateKey)

\* the duplicate check: abort, or go on to the first pass
CheckDuplicates ==
    /\ pc = "start"
    /\ IF DuplicateBlocks(blocks) # <<>>
       THEN /\ stderr' = [x \in 1..Len(DuplicateBlocks(blocks)) |->
                             [key  |-> DuplicateBlocks(blocks)[x].key,
                              line |-> ReportedLine(DuplicateBlocks(blocks)[x])]]
            /\ exit_code' = 1
            /\ pc' = "aborted"
       ELSE /\ pc' = "pass1"
            /\ UNCHANGED <<stderr, exit_code>>
    /\ UNCHANGED <<blocks, tagger, i, seen_titles, key_usage,
                   entry_replacements, title, key, n, committed, out, stdout,
                   unitVars>>

\* variant: the first pass writes a block that is no Entry as it meets it
Pass1SkipOther_Writes ==
    /\ pc = "pass1"
    /\ i <= Len(blocks)
    /\ ~IsEntry(blocks[i])
    /\ out' = (IF out = NotOpened THEN <<>> ELSE out)
                  \o <<[block |-> i, text |-> OtherText(blocks[i])]>>
    /\ i' = i + 1
    /\ UNCHANGED <<blocks, tagger, pc, seen_titles, key_usage,
                   entry_replacements, title, key, n, committed, stderr,
                   stdout, exit_code, unitVars>>

\* first pass, a block that is no Entry
Pass1SkipOther ==
    /\ pc = "pass1"
    /\ i <= Len(blocks)
    /\ ~IsEntry(blocks[i])
    /\ i' = i + 1
    /\ UNCHANGED <<blocks, tagger, pc, seen_titles, key_usage,
                   entry_replacements, title, key, n, committed, out, stderr,
                   stdout, exit_code, unitVars>>

\* first pass, an Entry whose title was seen: continue
Pass1SkipSeen ==
    /\ pc = "pass1"
    /\ i <= Len(blocks)
    /\ IsEntry(blocks[i])
    /\ TitleSeen(TitleOf(blocks[i]), seen_titles)
    /\ i' = i + 1
    /\ UNCHANGED <<blocks, tagger, pc, seen_titles, key_usage,
                   entry_replacements, title, key, n, committed, out, stderr,
                   stdout, exit_code, unitVars>>

\* first pass, a new title: up to the head of the while loop
Pass1Derive ==
    /\ pc = "pass1"
    /\ i <= Len(blocks)
    /\ IsEntry(blocks[i])
    /\ ~TitleSeen(TitleOf(blocks[i]), seen_titles)
    /\ title' = TitleOf(blocks[i])
    /\ seen_titles' = SeenAdd(seen_titles, TitleOf(blocks[i]))
    /\ key' = BaseKey(extract_lastname(AuthorField(blocks[i])),
                      YearToken(blocks[i]))
    /\ n' = 2
    /\ pc' = "while"
    /\ UNCHANGED <<blocks, tagger, i, key_usage, entry_replacements,
                   committed, out, stderr, stdout, exit_code, unitVars>>

\* one iteration of the while loop
Escalate ==
    /\ pc = "while"
    /\ KeyCollides(key, key_usage)
    /\ key' = Candidate(key, extract_title_abbreviation(title, tagger, n))
    /\ n' = Doubled(n, title)
    /\ UNCHANGED <<blocks, tagger, pc, i, seen_titles, key_usage,
                   entry_replacements, title, committed, out, stderr, stdout,
                   exit_code, unitVars>>

\* the loop is left: the key is recorded and the entry formatted
Commit ==
    /\ pc = "while"
    /\ ~KeyCollides(key, key_usage)
    /\ key_usage' = SetDefaultAppend(key_usage, key,
                        [title |-> title, orig_key |-> blocks[i].key,
                         line |-> blocks[i].start_line])
    /\ entry_replacements' =
           [l \in DOMAIN entry_replacements \cup {blocks[i].start_line} |->
               IF l = blocks[i].start_line
               THEN FormatEntry(blocks[i], key, title)
               ELSE entry_replacements[l]]
    /\ committed' =
           [l \in DOMAIN committed \cup {blocks[i].start_line} |->
               IF l = blocks[i].start_line THEN key ELSE committed[l]]
    /\ i' = i + 1
    /\ pc' = "pass1"
    /\ UNCHANGED <<blocks, tagger, seen_titles, title, key, n, out, stderr,
                   stdout, exit_code, unitVars>>

\* the keys with more than one item, in dict order
Conflicts(usage) == SelectSeq(usage, LAMBDA e : Len(e.items) > 1)

\* after the first pass: the conflict report, then the output file is opened
ReportAndOpen ==
    /\ pc = "pass1"
    /\ i > Len(blocks)
    /\ stdout' = stdout \o Conflicts(key_usage)
    /\ out' = <<>>
    /\ i' = 1
    /\ pc' = "pass2"
    /\ UNCHANGED <<blocks, tagger, seen_titles, key_usage, entry_replacements,
                   title, key, n, committed, stderr, exit_code, unitVars>>

\* second pass, an Entry with a replacement
Pass2WriteEntry ==
    /\ pc = "pass2"
    /\ i <= Len(blocks)
    /\ IsEntry(blocks[i])
    /\ blocks[i].start_line \in DOMAIN entry_replacements
    /\ out' = Append(out, [block |-> i,
                           text |-> entry_replacements[blocks[i].start_line] \o "\n"])
    /\ i' = i + 1
    /\ UNCHANGED <<blocks, tagger, pc, seen_titles, key_usage,
                   entry_replacements, title, key, n, committed, stderr,
                   stdout, exit_code, unitVars>>

\* second pass, an Entry without one
Pass2SkipEntry ==
    /\ pc = "pass2"
    /\ i <= Len(blocks)
    /\ IsEntry(blocks[i])
    /\ blocks[i].start_line \notin DOMAIN entry_replacements
    /\ i' = i + 1
    /\ UNCHANGED <<blocks, tagger, pc, seen_titles, key_usage,
                   entry_replacements, title, key, n, committed, out, stderr,
                   stdout, exit_code, unitVars>>

\* second pass, any other block
Pass2WriteOther ==
    /\ pc = "pass2"
    /\ i <= Len(blocks)
    /\ ~IsEntry(blocks[i])
    /\ out' = Append(out, [block |-> i, text |-> OtherText(blocks[i])])
    /\ i' = i + 1
    /\ UNCHANGED <<blocks, tagger, pc, seen_titles, key_usage,
                   entry_replacements, title, key, n, committed, stderr,
                   stdout, exit_code, unitVars>>

\* the file is closed and the final report printed
Finish ==
    /\ pc = "pass2"
    /\ i > Len(blocks)
    /\ stdout' = Append(stdout, [kept |-> Cardinality(DOMAIN entry_replacements)])
    /\ exit_code' = 0
    /\ pc' = "done"
    /\ UNCHANGED <<blocks, tagger, i, seen_titles, key_usage,
                   entry_replacements, title, key, n, committed, out, stderr,
                   unitVars>>

Next ==
    \/ CheckDuplicates
    \/ Pass1SkipOther
    \/ Pass1SkipSeen
    \/ Pass1Derive
    \/ Escalate
    \/ Commit
    \/ ReportAndOpen
    \/ Pass2WriteEntry
    \/ Pass2SkipEntry
    \/ Pass2WriteOther
    \/ Finish

Spec == Init /\ [][Next]_vars

---------------------------------------------------------------------------
(* The script run a second time on the same file *)

\* variant: the usage index of the run before is taken over
NewKeyUsage_TakenOver(previous) == previous

\* key_usage = {}: every run starts with an index of its own
NewKeyUsage(previous) == <<>>

\* The run is over, or is stopped in the while loop at an iteration that
\* repeats itself; the script is started again on the same file.  What the
\* first run committed is kept in ret for comparison.  The tagger of the new
\* run is whatever spacy.load gives then.
Rerun ==
    /\ ret = <<>>
    /\ \/ pc = "done"
       \/ /\ pc = "while"
          /\ KeyCollides(key, key_usage)
          /\ Doubled(n, title) = n
    /\ ret' = <<[tagger |-> tagger, committed |-> committed]>>
    /\ tagger' \in Taggers
    /\ pc' = "start"
    /\ i' = 1
    /\ seen_titles' = {}
    /\ key_usage' = NewKeyUsage(key_usage)
    /\ entry_replacements' = <<>>
    /\ title' = ""
    /\ key' = ""
    /\ n' = 2
    /\ committed' = <<>>
    /\ out' = NotOpened
    /\ stderr' = <<>>
    /\ stdout' = <<>>
    /\ exit_code' = NoExit
    /\ UNCHANGED <<blocks, arg>>

NextRerun == Next \/ Rerun

SpecRerun == Init /\ [][NextRerun]_vars

---------------------------------------------------------------------------
(* The functions on their own: each is applied to every input of a bounded *)
(* set of strings.                                                          *)

MaxTitlePieces == 5
MaxAuthorPieces == 6
MaxYearPieces == 5

TitlePieces == {"{", "}", " ", "\t", "a"}
AuthorPieces == {"and", "And", " ", ",", "Li", "-"}
YearPieces == {"1", "9", " ", "c"}
YearNames == {"year", "YEAR", "Year", "date"}

MainIdle ==
    /\ blocks = <<>>
    /\ tagger = [available |-> FALSE, important |-> {}]
    /\ i = 1
    /\ seen_titles = {}
    /\ key_usage = <<>>
    /\ entry_replacements = <<>>
    /\ title = ""
    /\ key = ""
    /\ n = 2
    /\ committed = <<>>
    /\ out = NotOpened
    /\ stderr = <<>>
    /\ stdout = <<>>
    /\ exit_code = NoExit

InitNormalize ==
    /\ MainIdle
    /\ pc = "clean_title_for_key"
    /\ arg \in StringsOver(TitlePieces, MaxTitlePieces)
    /\ ret = <<>>

\* clean_title_for_key applied to the input, then to its own result
CallNormalize ==
    /\ pc = "clean_title_for_key"
    /\ Len(ret) < 2
    /\ ret' = Append(ret, clean_title_for_key(IF ret = <<>> THEN arg ELSE ret[Len(ret)]))
    /\ UNCHANGED <<mainVars, arg>>

NextNormalize == CallNormalize

SpecNormalize == InitNormalize /\ [][NextNormalize]_vars

InitLastname ==
    /\ MainIdle
    /\ pc = "extract_lastname"
    /\ arg \in StringsOver(AuthorPieces, MaxAuthorPieces)
    /\ ret = <<>>

CallLastname ==
    /\ pc = "extract_lastname"
    /\ ret = <<>>
    /\ ret' = <<extract_lastname(arg)>>
    /\ UNCHANGED <<mainVars, arg>>

NextLastname == CallLastname

SpecLastname == InitLastname /\ [][NextLastname]_vars

InitYear ==
    /\ MainIdle
    /\ pc = "year"
    /\ arg \in {EntryBlock("article", "k", <<Field("title", "T")>>)}
               \cup {EntryBlock("article", "k", <<Field("title", "T"), Field(name, v)>>) :
                        name \in YearNames, v \in StringsOver(YearPieces, MaxYearPieces)}
    /\ ret = <<>>

\* the year extraction of the first pass
ExtractYear ==
    /\ pc = "year"
    /\ ret = <<>>
    /\ ret' = <<YearToken(arg)>>
    /\ UNCHANGED <<mainVars, arg>>

NextYear == ExtractYear

SpecYear == InitYear /\ [][NextYear]_vars

MaxTitleWords == 5
MaxCalls == 3

WordPieces == {"deep ", "of ", "GAN-", "2020 "}

InitAbbreviate ==
    /\ blocks = <<>>
    /\ tagger \in Taggers
    /\ pc = "extract_title_abbreviation"
    /\ i = 1
    /\ seen_titles = {}
    /\ key_usage = <<>>
    /\ entry_replacements = <<>>
    /\ title = ""
    /\ key = ""
    /\ n = 2
    /\ committed = <<>>
    /\ out = NotOpened
    /\ stderr = <<>>
    /\ stdout = <<>>
    /\ exit_code = NoExit
    /\ arg \in StringsOver(WordPieces, MaxTitleWords)
    /\ ret = <<>>

\* the calls the while loop makes for one title: n = 2, 4, 8, ...
CallAbbreviate ==
    /\ pc = "extract_title_abbreviation"
    /\ Len(ret) < MaxCalls
    /\ ret' = Append(ret, [n        |-> n,
                           selected |-> Selected(arg, tagger, n),
                           abbr     |-> extract_title_abbreviation(arg, tagger, n)])
    /\ n' = 2 * n
    /\ UNCHANGED <<blocks, tagger, pc, i, seen_titles, key_usage,
                   entry_replacements, title, key, committed, out, stderr,
                   stdout, exit_code, arg>>

NextAbbreviate == CallAbbreviate

SpecAbbreviate == InitAbbreviate /\ [][NextAbbreviate]_vars

---------------------------------------------------------------------------
(* Properties *)

Entries == {b \in 1..Len(blocks) : IsEntry(blocks[b])}

\* The values below depend on the entry alone; they are tabulated over the
\* entries the inputs are made of, so that each is computed once.
EntryOf(b) == [x \in DOMAIN blocks[b] \ {"start_line"} |-> blocks[b][x]]

TitleTable == [e \in EntryTemplates |-> TitleOf(e)]

LowerTitleTable == [e \in EntryTemplates |-> Lower(TitleOf(e))]

BaseKeyTable ==
    [e \in EntryTemplates |-> extract_lastname(AuthorField(e)) \o YearToken(e)]

\* the abbreviations of the title of e for n = 2, 4, ..., one per content word
AbbreviationTable ==
    [e \in EntryTemplates |->
        [tg \in Taggers |->
            [m \in 1..Len(ContentWords(TitleOf(e))) |->
                extract_title_abbreviation(TitleOf(e), tg, 2 ^ m)]]]

\* the title of the entry at block b as the first pass computes it
CanonicalTitle(b) == TitleTable[EntryOf(b)]

\* the entry at block b has a registered replacement
Kept(b) == blocks[b].start_line \in DOMAIN entry_replacements

KeyOf(b) == committed[blocks[b].start_line]

\* the blocks the first pass is through with
Pass1Processed ==
    IF pc \in {"pass1", "while"} THEN 1..(i - 1)
    ELSE IF pc \in {"pass2", "done"} THEN 1..Len(blocks)
    ELSE {}

\* the blocks the second pass is through with
Pass2Processed ==
    IF pc = "pass2" THEN 1..(i - 1)
    ELSE IF pc = "done" THEN 1..Len(blocks)
    ELSE {}

\* the writes of the second pass that came from block b
WritesOf(b) == {x \in 1..Len(out) : out[x].block = b}

\* no entry before b has the same title, letter case ignored
FirstOfTitle(b) ==
    \A a \in Entries :
        a < b => LowerTitleTable[EntryOf(a)] # LowerTitleTable[EntryOf(b)]

\* C1: once the first pass is over, the keys committed for the kept entries
\* are pairwise distinct.
C1_DerivedKeysDistinct ==
    pc \in {"pass2", "done"} =>
        \A a, b \in DOMAIN committed : a # b => committed[a] # committed[b]

\* C1 witness: the first pass is over and one kept entry's key extends
\* another's, i.e. a collision on the base key was met and escalated.
C1_Witness ==
    /\ pc = "pass2"
    /\ \E a, b \in DOMAIN committed :
          /\ Len(committed[a]) < Len(committed[b])
          /\ SubSeq(committed[b], 1, Len(committed[a])) = committed[a]

\* C2: an entry the first pass is through with is kept exactly when no
\* earlier entry has its title (case-insensitively), and the second pass
\* writes one output entry for a kept entry and nothing for a dropped one.
C2_TitleDeduplication ==
    /\ \A b \in Entries \cap Pass1Processed : Kept(b) <=> FirstOfTitle(b)
    /\ \A b \in Entries \cap Pass2Processed :
          Cardinality(WritesOf(b)) = (IF FirstOfTitle(b) THEN 1 ELSE 0)

\* C2 witness: a finished run with two entries whose titles differ only in
\* letter case, the first written, the second not, and a third entry of
\* another title written as well.
C2_Witness ==
    /\ pc = "done"
    /\ \E a, b, c \in Entries :
          /\ a < b
          /\ CanonicalTitle(a) # CanonicalTitle(b)
          /\ Lower(CanonicalTitle(a)) = Lower(CanonicalTitle(b))
          /\ Lower(CanonicalTitle(c)) # Lower(CanonicalTitle(a))
          /\ WritesOf(a) # {} /\ WritesOf(b) = {} /\ WritesOf(c) # {}

RECURSIVE LoopLeaves(_, _)
\* the while loop, run from candidate k and window m, reaches a candidate
\* that is not in key_usage (beyond the words of the title the candidate
\* no longer changes)
LoopLeaves(k, m) ==
    IF ~HasKey(key_usage, k) THEN TRUE
    ELSE IF m - 2 >= Len(ContentWords(title)) THEN FALSE
    ELSE LoopLeaves(k \o extract_title_abbreviation(title, tagger, m), 2 * m)

\* C3: the key derivation of an entry terminates: whenever the script is in
\* the while loop, the loop reaches a candidate it can commit.
C3_DerivationTerminates == pc = "while" => LoopLeaves(key, n)

\* raw, with a line break added when it does not end with one
WithLineBreak(raw) ==
    IF raw # "" /\ SubSeq(raw, Len(raw), Len(raw)) = "\n" THEN raw ELSE raw \o "\n"

\* C4: the second pass writes every block that is no Entry exactly once,
\* as its raw text (plus a line break when the text does not end with one),
\* and the writes follow the order of the blocks.
C4_OtherBlocksPreserved ==
    /\ \A b \in Pass2Processed \ Entries :
          /\ Cardinality(WritesOf(b)) = 1
          /\ \A x \in WritesOf(b) : out[x].text = WithLineBreak(blocks[b].raw)
    /\ out # NotOpened =>
          \A x, y \in 1..Len(out) : x < y => out[x].block < out[y].block

\* C4 witness: a finished run that wrote two other blocks around an entry,
\* one of them with a raw text that lacks the final line break.
C4_Witness ==
    /\ pc = "done"
    /\ \E a, c \in (1..Len(blocks)) \ Entries, b \in Entries :
          /\ a < b /\ b < c
          /\ WritesOf(a) # {} /\ WritesOf(b) # {} /\ WritesOf(c) # {}
          /\ blocks[a].raw # WithLineBreak(blocks[a].raw)
          /\ blocks[c].raw = WithLineBreak(blocks[c].raw)

DuplicateIndexes == {b \in 1..Len(blocks) : blocks[b].kind = "DuplicateBlockKey"}

\* C5: with a duplicate-key block among the blocks the script, once past the
\* check, has aborted with status 1 after listing every duplicate key with
\* start_line + 1; the output file is not opened and the indexes are empty.
C5_DuplicateKeysAbort ==
    (pc # "start" /\ DuplicateIndexes # {}) =>
        /\ pc = "aborted"
        /\ exit_code = 1
        /\ Len(stderr) = Cardinality(DuplicateIndexes)
        /\ \A b \in DuplicateIndexes :
              \E x \in 1..Len(stderr) :
                  /\ stderr[x] = [key |-> blocks[b].key,
                                  line |-> blocks[b].start_line + 1]
                  /\ x = Cardinality({d \in DuplicateIndexes : d <= b})
        /\ out = NotOpened
        /\ seen_titles = {}
        /\ key_usage = <<>>
        /\ entry_replacements = <<>>

\* C5 witness: an aborted run whose blocks hold two duplicate-key blocks
\* after an entry.
C5_Witness ==
    /\ pc = "aborted"
    /\ Cardinality(DuplicateIndexes) = 2
    /\ 1 \in Entries

\* surname token followed by year token
BaseKeyOf(b) == BaseKeyTable[EntryOf(b)]

\* the abbreviations of the title of the entry at block b under the tagger of
\* the run, for n = 2, 4, ...
AbbreviationsOf(b) == AbbreviationTable[EntryOf(b)][tagger]

\* C6: of the kept entries with one surname token and year token the first
\* in block order has the base key, the second has the base key followed by
\* the abbreviation for n = 2, and every kept entry has the shortest
\* candidate base + abbr(2) + abbr(4) + ... that no earlier kept entry
\* has; entries with the same base therefore have distinct keys.
C6_CollisionEscalation ==
    LET kept == {b \in Entries : Kept(b)}
        base == [b \in kept |-> BaseKeyOf(b)]
    IN  \A b \in kept :
            LET same    == {a \in kept : a <= b /\ base[a] = base[b]}
                earlier == {KeyOf(a) : a \in {x \in kept : x < b}}
                abbr    == AbbreviationsOf(b)
                steps   == 0..Len(abbr)
                cand    == [m \in steps |->
                               base[b] \o Concat([k \in 1..m |-> abbr[k]])]
            IN  /\ Cardinality(same) = 1 => KeyOf(b) = base[b]
                /\ Cardinality(same) = 2 =>
                      KeyOf(b) = base[b] \o (IF Len(abbr) > 0 THEN abbr[1] ELSE "")
                /\ \E m \in steps :
                      /\ KeyOf(b) = cand[m]
                      /\ cand[m] \notin earlier
                      /\ \A k \in 0..(m - 1) : cand[k] \in earlier
                /\ \A a \in same : a # b => KeyOf(a) # KeyOf(b)

RECURSIVE Escalated(_, _)
\* the candidate of entry b after m escalations: the base key with the
\* abbreviations for n = 2, 4, ..., 2^m appended one after the other
Escalated(b, m) ==
    IF m = 0 THEN BaseKeyOf(b)
    ELSE Escalated(b, m - 1) \o AbbreviationsOf(b)[m]

\* C6 witness: a finished run with three kept entries of one base key: the
\* first has the base key, the second one abbreviation (n = 2), the third
\* two (n = 2 and n = 4).
C6_Witness ==
    /\ pc = "done"
    /\ \E a, b, c \in Entries :
          /\ Kept(a) /\ Kept(b) /\ Kept(c)
          /\ a < b /\ b < c
          /\ BaseKeyOf(a) = BaseKeyOf(b) /\ BaseKeyOf(b) = BaseKeyOf(c)
          /\ KeyOf(a) = BaseKeyOf(a)
          /\ KeyOf(b) = Escalated(b, 1) /\ Escalated(b, 1) # Escalated(b, 0)
          /\ KeyOf(c) = Escalated(c, 2) /\ Escalated(c, 2) # Escalated(c, 1)

\* the while loop is at a candidate that is in key_usage and the window of
\* this and of every later iteration is beyond the words of the title
Exhausted ==
    /\ pc = "while"
    /\ KeyCollides(key, key_usage)
    /\ n - 2 >= Len(ContentWords(title))

\* C7: a residual conflict does not block the run: when the escalation has
\* exhausted the title with the candidate still in key_usage, the entry is
\* committed under that candidate (to be reported, and written by the
\* second pass).
C7_ResidualConflictDoesNotBlock == Exhausted => ENABLED <<Commit>>_vars

\* the values of the fields of the entry named year in any letter case
YearValues(entry) ==
    {entry.fields[x].value :
        x \in {y \in 1..Len(entry.fields) : Lower(entry.fields[y].key) = "year"}}

\* C8: the year token is the trimmed value of the year field, the field name
\* matched in any letter case, when that value is exactly four digits, and
\* "0000" otherwise.
C8_YearToken ==
    Len(ret) = 1 =>
        IF \E v \in YearValues(arg) : FourDigits(Strip(v))
        THEN \E v \in YearValues(arg) : ret[1] = Strip(v)
        ELSE ret[1] = "0000"

HasSeparator(s) == \E p \in 1..Len(s) : SeparatorAt(s, p)

HasComma(s) == \E p \in 1..Len(s) : Ch(s, p) = ","

NoWhitespace(s) == \A p \in 1..Len(s) : Ch(s, p) \notin Whitespace

\* w is the last whitespace-separated word of s
IsLastWordOf(w, s) ==
    \E k \in 1..Len(RStrip(s)) :
        /\ w = SubSeq(RStrip(s), k, Len(RStrip(s)))
        /\ NoWhitespace(w)
        /\ k = 1 \/ Ch(s, k - 1) \in Whitespace

\* t is the lowercased ASCII letters of s, or "unknown" when s has none
IsTokenOf(t, s) ==
    LET letters == {p \in 1..Len(s) : Ch(s, p) \in Letters}
    IN  IF letters = {} THEN t = "unknown"
        ELSE /\ Len(t) = Cardinality(letters)
             /\ \A p \in letters :
                   Ch(t, Cardinality({q \in letters : q <= p})) = LowerChar(Ch(s, p))

\* C9: extract_lastname returns a non-empty token of lowercase ASCII
\* letters: the letters of the text before the first comma of the first
\* author, or of the last word of the first author when it has no comma,
\* and "unknown" when that leaves nothing.
C9_LastnameToken ==
    Len(ret) = 1 =>
        LET first == Strip(FirstPiece(arg))
        IN  /\ ret[1] # ""
            /\ \A p \in 1..Len(ret[1]) : Ch(ret[1], p) \in LowerLetters
            /\ HasComma(first) =>
                  \E c \in 1..Len(first) :
                      /\ Ch(first, c) = ","
                      /\ \A d \in 1..(c - 1) : Ch(first, d) # ","
                      /\ IsTokenOf(ret[1], SubSeq(first, 1, c - 1))
            /\ (~HasComma(first) /\ first # "") =>
                  \E k \in 1..Len(first) :
                      /\ IsLastWordOf(SubSeq(first, k, Len(first)), first)
                      /\ IsTokenOf(ret[1], SubSeq(first, k, Len(first)))
            /\ first = "" => ret[1] = "unknown"

\* C9 witness: an author list of two authors, the first without a comma and
\* of two words, gave the letters of the second word.
C9_Witness ==
    /\ Len(ret) = 1
    /\ HasSeparator(arg)
    /\ ~HasComma(Strip(FirstPiece(arg)))
    /\ Len(Split(FirstPiece(arg))) = 2
    /\ ret[1] = "li"
    /\ Split(FirstPiece(arg))[1] = "-"

\* C10: clean_title_for_key applied to its own result returns it unchanged;
\* its result has no brace, no whitespace at either end and no two adjacent
\* whitespace characters; an input of braces only gives the empty string.
C10_NormalizeIdempotent ==
    /\ \A x \in 1..Len(ret) :
          /\ \A p \in 1..Len(ret[x]) : Ch(ret[x], p) \notin {"{", "}"}
          /\ ret[x] # "" =>
                /\ Ch(ret[x], 1) \notin Whitespace
                /\ Ch(ret[x], Len(ret[x])) \notin Whitespace
          /\ \A p \in 1..(Len(ret[x]) - 1) :
                ~(Ch(ret[x], p) \in Whitespace /\ Ch(ret[x], p + 1) \in Whitespace)
    /\ Len(ret) = 2 => ret[2] = ret[1]
    /\ (Len(ret) >= 1 /\ \A p \in 1..Len(arg) : Ch(arg, p) \in {"{", "}"}) =>
          ret[1] = ""

\* C10 witness: both calls were made on an input with a brace, a tab and two
\* adjacent whitespace characters between letters.
C10_Witness ==
    /\ Len(ret) = 2
    /\ arg = "{a \ta"
    /\ ret[2] = "a a"

\* what the first of two runs committed, and the tagger it had
FirstRun == ret[1]

SurnameTable == [e \in EntryTemplates |-> extract_lastname(AuthorField(e))]

YearTable == [e \in EntryTemplates |-> YearToken(e)]

\* k begins with the surname token of e immediately followed by its year token
BeginsWithTokens(k, e) ==
    LET sn == SurnameTable[e]
        yr == YearTable[e]
    IN  /\ Len(k) >= Len(sn) + Len(yr)
        /\ SubSeq(k, 1, Len(sn)) = sn
        /\ SubSeq(k, Len(sn) + 1, Len(sn) + Len(yr)) = yr

\* e has no field named author and none named year, in any letter case
NoAuthorNoYear(e) ==
    \A x \in 1..Len(e.fields) : Lower(e.fields[x].key) \notin {"author", "year"}

\* C12: every candidate of the while loop and every committed key begins
\* with the surname token of the entry immediately followed by its year
\* token, what the escalation adds coming after them; the key of a kept
\* entry with no author field and no year field begins with "unknown0000".
C12_KeyBeginsWithSurnameYear ==
    /\ pc = "while" => BeginsWithTokens(key, EntryOf(i))
    /\ \A b \in Entries :
          Kept(b) =>
              /\ BeginsWithTokens(KeyOf(b), EntryOf(b))
              /\ NoAuthorNoYear(EntryOf(b)) =>
                    SubSeq(KeyOf(b), 1, 11) = "unknown0000"

\* C12 witness: a finished run kept an entry with no author field and no
\* year field under the fallback tokens followed by an abbreviation.
C12_Witness ==
    /\ pc = "done"
    /\ \E b \in Entries :
          /\ Kept(b)
          /\ NoAuthorNoYear(EntryOf(b))
          /\ KeyOf(b) = "unknown0000GAN"

\* the values of the fields of e whose name is `name` in any letter case
ValuesNamed(e, name) ==
    {e.fields[x].value :
        x \in {y \in 1..Len(e.fields) : Lower(e.fields[y].key) = name}}

\* the titles and surname tokens of e with the field names read in any case
AnyCaseTitleTable ==
    [e \in EntryTemplates |->
        {clean_title_for_key(Strip(v)) : v \in ValuesNamed(e, "title")}]

AnyCaseSurnameTable ==
    [e \in EntryTemplates |->
        {extract_lastname(v) : v \in ValuesNamed(e, "author")}]

\* the items key_usage holds for the entry at block b
ItemsOf(b) ==
    {it \in UNION {{key_usage[x].items[y] : y \in 1..Len(key_usage[x].items)} :
                      x \in 1..Len(key_usage)} :
        it.line = blocks[b].start_line}

\* C13: the title and the author of an entry are read whatever the letter
\* case of the field name: a kept entry with a title field is recorded in
\* key_usage with the cleaned value of that field, its key begins with the
\* surname token of its author field, and of the entries that differ in
\* these titles (letter case ignored) all are kept.
C13_FieldNamesAnyCase ==
    /\ \A b \in Entries :
          Kept(b) =>
              /\ AnyCaseTitleTable[EntryOf(b)] # {} =>
                    \A it \in ItemsOf(b) : it.title \in AnyCaseTitleTable[EntryOf(b)]
              /\ AnyCaseSurnameTable[EntryOf(b)] # {} =>
                    \E sn \in AnyCaseSurnameTable[EntryOf(b)] :
                        SubSeq(KeyOf(b), 1, Len(sn)) = sn
    /\ \A b \in Entries \cap Pass1Processed :
          (/\ AnyCaseTitleTable[EntryOf(b)] # {}
           /\ \A a \in Entries :
                 a < b =>
                     \A ta \in AnyCaseTitleTable[EntryOf(a)],
                        tb \in AnyCaseTitleTable[EntryOf(b)] :
                         Lower(ta) # Lower(tb))
              => Kept(b)

\* the token list the windows are taken from
TokenList == Refined(ContentWords(arg), tagger)

RECURSIVE SelectedUpTo(_)
\* the tokens the first x calls selected, one window after the other
SelectedUpTo(x) ==
    IF x = 0 THEN <<>> ELSE SelectedUpTo(x - 1) \o ret[x].selected

\* C14: the windows of the calls n = 2, 4, 8, ... follow one another
\* through the token list: after x calls the tokens selected so far are the
\* first 2x tokens of the list (all of them when the list has fewer), so no
\* token is passed over.
C14_WindowsWalkWithoutGap ==
    \A x \in 1..Len(ret) :
        SelectedUpTo(x) =
            SubSeq(TokenList, 1,
                   IF 2 * x <= Len(TokenList) THEN 2 * x ELSE Len(TokenList))

\* w has no lower-case letter
AllUppercase(w) == \A p \in 1..Len(w) : Ch(w, p) \notin LowerLetters

\* r is w in upper case: the same length, each letter in its capital form
IsUppercased(r, w) ==
    /\ Len(r) = Len(w)
    /\ \A p \in 1..Len(w) : Ch(r, p) = UpperChar(Ch(w, p))

\* parts are the renderings of the tokens: a token of at most 3 characters
\* or without lower-case letter in upper case, any other as its first
\* character in lower case
AreRenderings(parts, tokens) ==
    /\ Len(parts) = Len(tokens)
    /\ \A k \in 1..Len(tokens) :
          IF Len(tokens[k]) <= 3 \/ AllUppercase(tokens[k])
          THEN IsUppercased(parts[k], tokens[k])
          ELSE parts[k] = LowerChar(Ch(tokens[k], 1))

\* C15: every call returns; its result has at most 3 characters and is the
\* first 3 characters of the renderings, put together, of the tokens at
\* positions n-2 and n-1 (from 0) of the token list; it is empty when the
\* title has no content word or the window holds no token.
C15_AbbreviationToken ==
    \A x \in 1..Len(ret) :
        LET call   == ret[x]
            tokens == IF ContentWords(arg) = <<>> THEN <<>> ELSE TokenList
            window == [k \in 1..(IF call.n <= Len(tokens) THEN 2
                                 ELSE IF call.n - 1 <= Len(tokens) THEN 1
                                 ELSE 0) |-> tokens[call.n - 2 + k]]
            parts  == [k \in 1..Len(window) |->
                          IF Len(window[k]) <= 3 \/ AllUppercase(window[k])
                          THEN Upper(window[k])
                          ELSE SubSeq(window[k], 1, 1)]
            whole  == Concat(parts)
        IN  /\ call.selected = window
            /\ AreRenderings(parts, window)
            /\ Len(call.abbr) <= 3
            /\ Len(call.abbr) = (IF Len(whole) <= 3 THEN Len(whole) ELSE 3)
            /\ call.abbr = SubSeq(whole, 1, Len(call.abbr))
            /\ (ContentWords(arg) = <<>> \/ window = <<>>) => call.abbr = ""

\* C15 witness: the call for n = 4 selected a token of more than 3
\* characters without lower-case letter and a longer word, and the result
\* was cut to 3 characters; the call for n = 8 found its window empty.
C15_Witness ==
    /\ Len(ret) = 3
    /\ ret[2].selected = <<"2020", "deep">>
    /\ ret[2].abbr = "202"
    /\ ret[1].abbr = "GAN"
    /\ ContentWords(arg) # <<>>
    /\ ret[3].selected = <<>>
    /\ ret[3].abbr = ""

\* the first pass is at an entry whose lowercased title is in seen_titles
AtSeenTitle ==
    /\ pc = "pass1"
    /\ i <= Len(blocks)
    /\ IsEntry(blocks[i])
    /\ LowerTitleTable[EntryOf(i)] \in seen_titles

\* C16: the step the first pass takes at an entry whose lowercased title
\* was seen leaves seen_titles, key_usage and entry_replacements as they
\* are and goes on to the next block: no key is derived or recorded, no
\* replacement registered.
C16_DuplicateLeavesIndexes ==
    [][AtSeenTitle =>
          /\ seen_titles' = seen_titles
          /\ key_usage' = key_usage
          /\ entry_replacements' = entry_replacements
          /\ committed' = committed
          /\ key' = key
          /\ pc' = "pass1"
          /\ i' = i + 1]_vars

\* C16 witness: the first pass has just gone past an entry whose title
\* differs from an earlier one's in letter case only; the indexes hold the
\* earlier entry alone.
C16_Witness ==
    /\ pc = "pass1"
    /\ i = 3
    /\ Entries = {1, 2}
    /\ CanonicalTitle(1) # CanonicalTitle(2)
    /\ seen_titles = {Lower(CanonicalTitle(2))}
    /\ Len(key_usage) = 1
    /\ DOMAIN entry_replacements = {blocks[1].start_line}

\* C17: the output is opened, and written to, only once the first pass is
\* through with the last block, and from then on seen_titles, key_usage and
\* entry_replacements stay as the first pass left them.
C17_PassesDoNotInterleave ==
    [][/\ out' # out =>
             \/ pc = "pass1" /\ i > Len(blocks)
             \/ pc = "pass2"
       /\ (pc \in {"pass2", "done"} \/ out # NotOpened) =>
             /\ seen_titles' = seen_titles
             /\ key_usage' = key_usage
             /\ entry_replacements' = entry_replacements]_vars

\* C17 witness: the second pass is under way, an entry and another block
\* written, a block still to come, the indexes filled by the first pass.
C17_Witness ==
    /\ pc = "pass2"
    /\ i <= Len(blocks)
    /\ Len(out) = 2
    /\ \E x, y \in 1..Len(out) :
          out[x].block \in Entries /\ out[y].block \notin Entries
    /\ Len(key_usage) = 1
    /\ Cardinality(seen_titles) = 1
    /\ Cardinality(DOMAIN entry_replacements) = 1

\* the lines of a text, line breaks taken out
LinesOf(text) ==
    LET breaks   == {p \in 1..Len(text) : Ch(text, p) = "\n"}
        break(k) == CHOOSE p \in breaks : Cardinality({q \in breaks : q <= p}) = k
        count    == Cardinality(breaks)
    IN  [k \in 1..(count + 1) |->
            SubSeq(text,
                   IF k = 1 THEN 1 ELSE break(k - 1) + 1,
                   IF k = count + 1 THEN Len(text) ELSE break(k) - 1)]

\* line is `content`, or `content` followed by one comma
IsFieldLine(line, content) == line = content \/ line = content \o ","

\* C18: the replacement of a kept entry is the opening line with entry type,
\* key and title, then one line per field other than the title in the order
\* of the entry, then the closing line; the line before the closing line
\* does not end with a comma, whether or not the entry has another field
\* than the title.
C18_FormattedEntry ==
    \A b \in Entries :
        Kept(b) =>
            LET e     == EntryOf(b)
                lines == LinesOf(entry_replacements[blocks[b].start_line])
                other == SelectSeq(e.fields, LAMBDA f : f.key # "title")
            IN  /\ Len(lines) = Len(other) + 2
                /\ IsFieldLine(lines[1],
                       "@" \o e.entry_type \o "{" \o KeyOf(b)
                           \o ", title = {" \o CanonicalTitle(b) \o "}")
                /\ \A k \in 1..Len(other) :
                      IsFieldLine(lines[k + 1],
                          "  " \o other[k].key \o " = {" \o other[k].value \o "}")
                /\ lines[Len(lines)] = "}"
                /\ LET last == lines[Len(lines) - 1]
                   IN  Ch(last, Len(last)) # ","

\* C19: every key of key_usage has exactly one item, no key is there
\* twice, and the conflict report prints nothing: stdout holds no conflict.
C19_OneItemPerKey ==
    /\ \A x \in 1..Len(key_usage) : Len(key_usage[x].items) = 1
    /\ \A x, y \in 1..Len(key_usage) :
          x # y => key_usage[x].key # key_usage[y].key
    /\ \A x \in 1..Len(stdout) : "items" \notin DOMAIN stdout[x]
    /\ pc \in {"pass2", "done"} => Conflicts(key_usage) = <<>>

\* C19 witness: the conflict report has been passed with three keys in
\* key_usage that came from one base key, the second and the third found
\* taken and escalated.
C19_Witness ==
    /\ pc = "pass2"
    /\ i = 1
    /\ stdout = <<>>
    /\ Len(key_usage) = 3
    /\ \A x \in 2..3 :
          /\ Len(key_usage[x].key) > Len(key_usage[1].key)
          /\ SubSeq(key_usage[x].key, 1, Len(key_usage[1].key)) = key_usage[1].key

RECURSIVE TotalItems(_)
\* the number of items of all keys of the index together
TotalItems(usage) ==
    IF usage = <<>> THEN 0
    ELSE Len(Head(usage).items) + TotalItems(Tail(usage))

\* the writes of the second pass that came from entries
EntryWrites == {x \in 1..Len(out) : out[x].block \in Entries}

\* C20: between the steps of the first pass, and after it, seen_titles,
\* the items of key_usage and entry_replacements are equally many; at the
\* end the reported count is the number of distinct lowercased titles among
\* the entries and the number of entries the second pass wrote.
C20_CountsAgree ==
    /\ pc \in {"start", "pass1", "pass2", "done"} =>
          /\ Cardinality(seen_titles) = TotalItems(key_usage)
          /\ Cardinality(seen_titles) = Cardinality(DOMAIN entry_replacements)
    /\ pc = "done" =>
          /\ stdout[Len(stdout)].kept =
                 Cardinality({LowerTitleTable[EntryOf(b)] : b \in Entries})
          /\ stdout[Len(stdout)].kept = Cardinality(EntryWrites)

\* C20 witness: a finished run over three entries, two of one title, and
\* no other block, reporting 2 kept entries.
C20_Witness ==
    /\ pc = "done"
    /\ Entries = {1, 2, 3}
    /\ Cardinality(seen_titles) = 2
    /\ stdout[Len(stdout)].kept = 2
    /\ Cardinality(EntryWrites) = 2

===========================================================================
